---- MODULE Spec2Model ----
(***************************************************************************)
(* Portable path / filename validators of rust-cli-boilerplate             *)
(* (template/src/validators.rs), as run on a POSIX host (cfg(unix)), and   *)
(* the earlier revision of the two rule engines (src/validators.rs).       *)
(*                                                                         *)
(* A path or a component is the byte string of its OsStr: a sequence of    *)
(* integers in 0..255.  A verdict is Ok or Err(format string, arguments).  *)
(* fs is the filesystem the two probes look at; opens counts the calls of  *)
(* File::open made by the call that has just returned; handles counts the  *)
(* file handles the process holds open; accepted is the path a probe has   *)
(* just accepted for the caller, with what it resolved to at that time;    *)
(* threads are further threads of the process, each calling the rule       *)
(* engines on its own.                                                     *)
(***************************************************************************)
EXTENDS Integers, Sequences, FiniteSets, TLC

VARIABLES pc, op, arg, verdict, fs, opens, handles, accepted, threads

vars == <<pc, op, arg, verdict, fs, opens, handles, accepted, threads>>

----------------------------------------------------------------------------
(* Bytes the validators name.                                              *)

NUL == 0
DEL == 127
SPACE == 32
QUOTE == 34
STAR == 42
PERIOD == 46
SLASH == 47
COLON == 58
LT == 60
GT == 62
QMARK == 63
BACKSLASH == 92
PIPE == 124

(* Length limits.                                                          *)
MaxNameLen == 255
MaxPathLen == 32760

Byte == 0..255

(* U+FFFD, which a lossy conversion puts in place of undecodable bytes.    *)
REPLACEMENT_CHARACTER == 65533

(* RESERVED_DOS_FILENAMES, each name as its sequence of code points.       *)
Digits19 == 49..57
RESERVED_DOS_FILENAMES ==
    { <<65, 85, 88>>,                       \* AUX
      <<67, 79, 78>>,                       \* CON
      <<78, 85, 76>>,                       \* NUL
      <<80, 82, 78>> }                      \* PRN
    \cup { <<67, 79, 77, d>> : d \in Digits19 }     \* COM1..COM9
    \cup { <<76, 80, 84, d>> : d \in Digits19 }     \* LPT1..LPT9
    \cup { <<67, 76, 79, 67, 75, 36>>,      \* CLOCK$
           <<36, 73, 68, 76, 69, 36>>,      \* $IDLE$
           <<67, 79, 78, 70, 73, 71, 36>>,  \* CONFIG$
           <<75, 69, 89, 66, 68, 36>>,      \* KEYBD$
           <<76, 83, 84>>,                  \* LST
           <<83, 67, 82, 69, 69, 78, 36>> } \* SCREEN$

----------------------------------------------------------------------------
(* Verdicts: Result<(), OsString>.  An error message is kept as the format *)
(* string of its format!() call together with the arguments formatted.     *)

Ok == [ok |-> TRUE, fmt |-> "", args |-> <<>>]
Err(f, a) == [ok |-> FALSE, fmt |-> f, args |-> a]

NoVerdict == [ok |-> FALSE, fmt |-> "(no call has returned)", args |-> <<>>]

----------------------------------------------------------------------------
(* UTF-8 decoding, as str::from_utf8 / String::from_utf8_lossy do it.      *)

IsCont(b) == b >= 128 /\ b <= 191

(* Number of bytes of the sequence a lead byte opens; 0: not a lead byte.  *)
Utf8Width(b) ==
    IF b <= 127 THEN 1
    ELSE IF b >= 194 /\ b <= 223 THEN 2
    ELSE IF b >= 224 /\ b <= 239 THEN 3
    ELSE IF b >= 240 /\ b <= 244 THEN 4
    ELSE 0

(* The second byte of a sequence has a narrower range after E0, ED, F0, F4 *)
(* (no overlong forms, no surrogates, nothing above U+10FFFF).             *)
SecondOk(b0, b1) ==
    CASE b0 = 224 -> b1 >= 160 /\ b1 <= 191
      [] b0 = 237 -> b1 >= 128 /\ b1 <= 159
      [] b0 = 240 -> b1 >= 144 /\ b1 <= 191
      [] b0 = 244 -> b1 >= 128 /\ b1 <= 143
      [] OTHER -> IsCont(b1)

(* How many bytes from position i on form the longest well-formed prefix   *)
(* of one encoded character, and whether that prefix is a whole character. *)
Utf8Chunk(s, i) ==
    LET w == Utf8Width(s[i])
        has(k) == i + k <= Len(s)
        ok1 == w >= 2 /\ has(1) /\ SecondOk(s[i], s[i + 1])
        ok2 == ok1 /\ w >= 3 /\ has(2) /\ IsCont(s[i + 2])
        ok3 == ok2 /\ w >= 4 /\ has(3) /\ IsCont(s[i + 3])
        used == IF ok3 THEN 4 ELSE IF ok2 THEN 3 ELSE IF ok1 THEN 2 ELSE 1
    IN  [used |-> used, whole |-> w >= 1 /\ used = w]

CodePoint(s, i, w) ==
    CASE w = 1 -> s[i]
      [] w = 2 -> (s[i] - 192) * 64 + (s[i + 1] - 128)
      [] w = 3 -> (s[i] - 224) * 4096 + (s[i + 1] - 128) * 64 + (s[i + 2] - 128)
      [] w = 4 -> (s[i] - 240) * 262144 + (s[i + 1] - 128) * 4096
                    + (s[i + 2] - 128) * 64 + (s[i + 3] - 128)

(* A character (or a run of undecodable bytes) starts at byte i unless one *)
(* of the three bytes before i opens a sequence that reaches i.  A byte    *)
(* that opens a sequence is a lead byte, never a continuation byte, so it  *)
(* is itself always a start.                                               *)
IsCharStart(s, i) ==
    \A j \in (i - 3)..(i - 1) : j >= 1 => j + Utf8Chunk(s, j).used <= i

(* The character that the chunk c at byte i encodes; -1 stands for a      *)
(* maximal run of bytes that is no character.                              *)
ChunkChar(s, i, c) == IF c.whole THEN CodePoint(s, i, c.used) ELSE -1

(* The characters of bytes lo..hi of s in order.  The range is halved      *)
(* rather than walked, to keep the evaluation shallow.                     *)
RECURSIVE DecodeRange(_, _, _)
DecodeRange(s, lo, hi) ==
    IF lo > hi THEN <<>>
    ELSE IF lo = hi
    THEN (IF IsCharStart(s, lo) THEN <<ChunkChar(s, lo, Utf8Chunk(s, lo))>> ELSE <<>>)
    ELSE DecodeRange(s, lo, (lo + hi) \div 2) \o DecodeRange(s, (lo + hi) \div 2 + 1, hi)

Decode(s) == DecodeRange(s, 1, Len(s))

(* Some(text) only when every byte decoded.                                *)
Checked(d) ==
    IF \E k \in 1..Len(d) : d[k] = -1
    THEN [some |-> FALSE, chars |-> <<>>]
    ELSE [some |-> TRUE, chars |-> d]

(* U+FFFD in place of each undecodable run.                                *)
Replaced(d) == [k \in 1..Len(d) |-> IF d[k] = -1 THEN REPLACEMENT_CHARACTER ELSE d[k]]

(* Faulty variant: the lossy conversion used where the strict one is.              *)
ToStr_Lossy(s) == [some |-> TRUE, chars |-> Replaced(Decode(s))]

(* OsStr::to_str.                                                          *)
ToStr(s) == Checked(Decode(s))

(* OsStr::to_string_lossy.                                                 *)
ToStringLossy(s) == Replaced(Decode(s))

(* char::to_uppercase for the characters the inputs below can contain:     *)
(* ASCII, Latin-1, dotless i and long s; one character may become two.     *)
CharToUppercase(c) ==
    IF c >= 97 /\ c <= 122 THEN <<c - 32>>
    ELSE IF c = 181 THEN <<924>>
    ELSE IF c = 223 THEN <<83, 83>>
    ELSE IF c >= 224 /\ c <= 254 /\ c # 247 THEN <<c - 32>>
    ELSE IF c = 255 THEN <<376>>
    ELSE IF c = 305 THEN <<73>>
    ELSE IF c = 383 THEN <<83>>
    ELSE <<c>>

(* str::to_uppercase: every character mapped, in order.                   *)
RECURSIVE UppercaseRange(_, _, _)
UppercaseRange(chars, lo, hi) ==
    IF lo > hi THEN <<>>
    ELSE IF lo = hi THEN CharToUppercase(chars[lo])
    ELSE UppercaseRange(chars, lo, (lo + hi) \div 2)
             \o UppercaseRange(chars, (lo + hi) \div 2 + 1, hi)

ToUppercase(chars) == UppercaseRange(chars, 1, Len(chars))

----------------------------------------------------------------------------
(* std::path on POSIX: components, file_name, file_stem.                   *)

IsCurDir(seg) == seg = <<PERIOD>>
IsParentDir(seg) == seg = <<PERIOD, PERIOD>>

(* A non-empty segment of p begins at i: a byte that is no separator, at   *)
(* the front of p or right after a separator; and ends at i likewise.      *)
IsSegmentStart(p, i) == p[i] # SLASH /\ (i = 1 \/ p[i - 1] = SLASH)
IsSegmentEnd(p, i) == p[i] # SLASH /\ (i = Len(p) \/ p[i + 1] = SLASH)

(* The positions lo..hi of p where a segment starts (ends), in ascending   *)
(* order.  The range is halved rather than walked, to keep the evaluation  *)
(* shallow.                                                                *)
RECURSIVE SegmentStarts(_, _, _)
SegmentStarts(p, lo, hi) ==
    IF lo > hi THEN <<>>
    ELSE IF lo = hi THEN (IF IsSegmentStart(p, lo) THEN <<lo>> ELSE <<>>)
    ELSE SegmentStarts(p, lo, (lo + hi) \div 2)
             \o SegmentStarts(p, (lo + hi) \div 2 + 1, hi)

RECURSIVE SegmentEnds(_, _, _)
SegmentEnds(p, lo, hi) ==
    IF lo > hi THEN <<>>
    ELSE IF lo = hi THEN (IF IsSegmentEnd(p, lo) THEN <<lo>> ELSE <<>>)
    ELSE SegmentEnds(p, lo, (lo + hi) \div 2)
             \o SegmentEnds(p, (lo + hi) \div 2 + 1, hi)

Slices(p, starts, ends) == [k \in 1..Len(starts) |-> SubSeq(p, starts[k], ends[k])]

(* The non-empty byte strings between '/' separators, in order.            *)
Segments(p) ==
    Slices(p, SegmentStarts(p, 1, Len(p)), SegmentEnds(p, 1, Len(p)))

IsNotCurDir(seg) == ~IsCurDir(seg)

(* Faulty variant: ".." taken for a Normal component.                      *)
Classify_AllNormal(segs) ==
    [k \in 1..Len(segs) |-> [normal |-> TRUE, name |-> segs[k]]]

(* ".." is ParentDir, anything else is Normal.                             *)
Classify(segs) ==
    [k \in 1..Len(segs) |-> [normal |-> ~IsParentDir(segs[k]), name |-> segs[k]]]

(* Faulty variant: a repeated separator yields an empty Normal component.  *)
Components_EmptyKept(p) ==
    (IF \E i \in 1..(Len(p) - 1) : p[i] = SLASH /\ p[i + 1] = SLASH
     THEN <<[normal |-> TRUE, name |-> <<>>]>> ELSE <<>>)
        \o Classify(SelectSeq(Segments(p), IsNotCurDir))

(* Path::components without the RootDir and CurDir entries: repeated       *)
(* separators and "." segments yield nothing.                              *)
Components(p) == Classify(SelectSeq(Segments(p), IsNotCurDir))

(* Path::file_name: the last component when it is a Normal one.            *)
LastNormal(cs) ==
    IF cs # <<>> /\ cs[Len(cs)].normal
    THEN [some |-> TRUE, name |-> cs[Len(cs)].name]
    ELSE [some |-> FALSE, name |-> <<>>]

FileName(p) == LastNormal(Components(p))

(* The position of the last period of a name; 0 when it has none.          *)
LastPeriod(n) ==
    LET dots == {j \in 1..Len(n) : n[j] = PERIOD}
    IN  IF dots = {} THEN 0 ELSE CHOOSE x \in dots : \A y \in dots : y <= x

(* rsplit_file_at_dot: the name up to its last period; the whole name when *)
(* it has no period or only a leading one.                                 *)
BeforeDot(n, last) == IF last <= 1 THEN n ELSE SubSeq(n, 1, last - 1)

StemOf(f) ==
    IF f.some THEN [some |-> TRUE, name |-> BeforeDot(f.name, LastPeriod(f.name))] ELSE f

(* Path::file_stem.                                                        *)
FileStem(p) == StemOf(FileName(p))

----------------------------------------------------------------------------
(* filename_valid_portable, rule by rule in the order of the code.         *)

(* Faulty variants of the length rule: limit one too low, one too high.    *)
NameTooLong_AtLimit(value) == Len(value) >= MaxNameLen
NameTooLong_OneMore(value) == Len(value) > MaxNameLen + 1

(* os_str.len() > 255                                                      *)
NameTooLong(value) == Len(value) > MaxNameLen

(* Faulty variant: only a trailing period is refused.                              *)
EndsWithSpaceOrPeriod_PeriodOnly(last_char) == last_char = PERIOD

(* [' ', '.'].iter().any(|&x| x == last_char)                              *)
EndsWithSpaceOrPeriod(last_char) == last_char \in {SPACE, PERIOD}

(* Faulty variants, byte rule: DEL let through; only the separator of the  *)
(* platform the check runs on refused; NUL let through.                    *)
IsInvalidByte_NoDel(c) ==
    c <= 31 \/ c \in {QUOTE, STAR, LT, GT, QMARK, PIPE, SLASH, COLON, BACKSLASH}
IsInvalidByte_NativeOnly(c) ==
    c <= 31 \/ c = DEL \/ c \in {QUOTE, STAR, LT, GT, QMARK, PIPE, SLASH}
IsInvalidByte_NoNul(c) ==
    (c >= 1 /\ c <= 31) \/ c = DEL
        \/ c \in {QUOTE, STAR, LT, GT, QMARK, PIPE, SLASH, COLON, BACKSLASH}

(* The match on each byte: NUL, the control range and the characters FAT   *)
(* and NTFS forbid, and the three path separators.                         *)
IsInvalidByte(c) ==
    \/ c = NUL
    \/ (c >= 1 /\ c <= 31) \/ c = DEL
    \/ c \in {QUOTE, STAR, LT, GT, QMARK, PIPE}
    \/ c = SLASH
    \/ c = COLON
    \/ c = BACKSLASH

(* Faulty variant: the stem compared as written, without upper-casing.             *)
UppercasedStem_AsWritten(file_stem) == ToStringLossy(file_stem)

(* file_stem.to_string_lossy().to_uppercase()                              *)
UppercasedStem(file_stem) == ToUppercase(ToStringLossy(file_stem))

(* Faulty variant: a reserved name at the front of the stem is enough.              *)
IsReserved_Prefix(stem) ==
    \E x \in RESERVED_DOS_FILENAMES : Len(x) <= Len(stem) /\ SubSeq(stem, 1, Len(x)) = x

(* RESERVED_DOS_FILENAMES.iter().any(|&x| x == stem)                       *)
IsReserved(stem) == \E x \in RESERVED_DOS_FILENAMES : x = stem

(* The reserved-name rule, last of all.                                    *)
CheckReserved(file_stem) ==
    IF file_stem.some /\ IsReserved(UppercasedStem(file_stem.name))
    THEN Err("Filename is reserved on Windows: {:?}", <<file_stem.name>>)
    ELSE Ok

(* The rules on the decoded text and on the bytes.                         *)
CheckText(value, lossy_str) ==
    IF ~lossy_str.some
    THEN Err("File/folder names containing non-UTF8 characters aren't portable", <<>>)
    ELSE IF Len(lossy_str.chars) = 0
    THEN Err("File/folder name is empty", <<>>)
    ELSE IF EndsWithSpaceOrPeriod(lossy_str.chars[Len(lossy_str.chars)])
    THEN Err("Windows forbids path components ending with spaces/periods", <<>>)
    ELSE IF \E k \in 1..Len(value) : IsInvalidByte(value[k])
    THEN Err("Path component contains invalid characters: {}", <<value>>)
    ELSE CheckReserved(FileStem(value))

(* Faulty variants of the rule order: the empty name let through; the      *)
(* length looked at only after the text rules.                             *)
filename_valid_portable_EmptyOk(value) ==
    IF value = <<>> THEN Ok
    ELSE IF NameTooLong(value)
    THEN Err("File/folder name is too long ({} chars): {}", <<Len(value), value>>)
    ELSE CheckText(value, ToStr(value))
filename_valid_portable_LengthLast(value) ==
    IF ~CheckText(value, ToStr(value)).ok THEN CheckText(value, ToStr(value))
    ELSE IF NameTooLong(value)
    THEN Err("File/folder name is too long ({} chars): {}", <<Len(value), value>>)
    ELSE Ok

filename_valid_portable(value) ==
    IF NameTooLong(value)
    THEN Err("File/folder name is too long ({} chars): {}", <<Len(value), value>>)
    ELSE CheckText(value, ToStr(value))

----------------------------------------------------------------------------
(* path_valid_portable.                                                    *)

(* Faulty variant: the limit taken one too low.                                    *)
PathTooLong_AtLimit(value) == Len(value) >= MaxPathLen

(* path.as_os_str().len() > 32760                                          *)
PathTooLong(value) == Len(value) > MaxPathLen

(* Faulty variant: the loop runs on after an error and the last one wins.  *)
OrElse_LastWins(first, second) == IF ~second.ok THEN second ELSE first

(* The ? operator: the first error returns, the second is not looked at.   *)
OrElse(first, second) == IF ~first.ok THEN first ELSE second

(* The for loop over path.components(): Normal components lo..hi are       *)
(* validated in order and the first error returns; the other kinds are     *)
(* passed over.                                                            *)
RECURSIVE ValidateComponents(_, _, _)
ValidateComponents(cs, lo, hi) ==
    IF lo > hi THEN Ok
    ELSE IF lo = hi
    THEN (IF cs[lo].normal THEN filename_valid_portable(cs[lo].name) ELSE Ok)
    ELSE OrElse(ValidateComponents(cs, lo, (lo + hi) \div 2),
                ValidateComponents(cs, (lo + hi) \div 2 + 1, hi))

(* Faulty variant: only the final component is validated.                          *)
ValidateAll_LastOnly(cs) == IF cs = <<>> THEN Ok ELSE ValidateComponents(cs, Len(cs), Len(cs))

ValidateAll(cs) == ValidateComponents(cs, 1, Len(cs))

(* Faulty variant: the empty path goes on to the component loop.           *)
path_valid_portable_NoEmptyRule(value) ==
    IF PathTooLong(value)
    THEN Err("Path is too long ({} chars): {:?}", <<Len(value), value>>)
    ELSE ValidateAll(Components(value))

(* Faulty variant: the path is also looked up in the filesystem.           *)
path_valid_portable_MustExist(value) ==
    IF value = <<>>
    THEN Err("Path is empty", <<>>)
    ELSE IF PathTooLong(value)
    THEN Err("Path is too long ({} chars): {:?}", <<Len(value), value>>)
    ELSE IF value \in DOMAIN fs /\ fs[value].kind = "missing"
    THEN Err("{}: {}", <<value, "No such file or directory (os error 2)">>)
    ELSE ValidateAll(Components(value))

path_valid_portable(value) ==
    IF value = <<>>
    THEN Err("Path is empty", <<>>)
    ELSE IF PathTooLong(value)
    THEN Err("Path is too long ({} chars): {:?}", <<Len(value), value>>)
    ELSE ValidateAll(Components(value))

----------------------------------------------------------------------------
(* The earlier revision of the two rule engines (src/validators.rs).       *)

Earlier_RESERVED_DOS_FILENAMES ==
    { <<65, 85, 88>>,                       \* AUX
      <<67, 79, 78>>,                       \* CON
      <<78, 85, 76>>,                       \* NUL
      <<80, 82, 78>> }                      \* PRN
    \cup { <<67, 79, 77, d>> : d \in Digits19 }     \* COM1..COM9
    \cup { <<76, 80, 84, d>> : d \in Digits19 }     \* LPT1..LPT9
    \cup { <<67, 76, 79, 67, 75, 36>> }    \* CLOCK$

(* The UTF-8 encoding of one character, and of a string.                   *)
EncodeChar(c) ==
    IF c < 128 THEN <<c>>
    ELSE IF c < 2048 THEN <<192 + (c \div 64), 128 + (c % 64)>>
    ELSE IF c < 65536
    THEN <<224 + (c \div 4096), 128 + ((c \div 64) % 64), 128 + (c % 64)>>
    ELSE <<240 + (c \div 262144), 128 + ((c \div 4096) % 64), 128 + ((c \div 64) % 64),
           128 + (c % 64)>>

RECURSIVE EncodeRange(_, _, _)
EncodeRange(chars, lo, hi) ==
    IF lo > hi THEN <<>>
    ELSE IF lo = hi THEN EncodeChar(chars[lo])
    ELSE EncodeRange(chars, lo, (lo + hi) \div 2) \o EncodeRange(chars, (lo + hi) \div 2 + 1, hi)

(* path.to_string_lossy().as_bytes()                                       *)
LossyBytes(value) == EncodeRange(ToStringLossy(value), 1, Len(ToStringLossy(value)))

(* The match on each byte in path_valid_portable: NUL, the control range   *)
(* and the characters FAT and NTFS forbid.                                 *)
Earlier_IsInvalidByte(c) ==
    \/ c = NUL
    \/ c <= 31 \/ c = DEL \/ c \in {QUOTE, STAR, LT, GT, QMARK, PIPE}

(* The match on each byte in filename_valid_portable: the separators.      *)
Earlier_IsSeparator(c) ==
    \/ c = SLASH
    \/ c = COLON
    \/ c = BACKSLASH

Earlier_IsReserved(stem) == \E x \in Earlier_RESERVED_DOS_FILENAMES : x = stem

Earlier_CheckReserved(file_stem) ==
    IF file_stem.some /\ Earlier_IsReserved(UppercasedStem(file_stem.name))
    THEN Err("Filename is reserved on Windows: {:?}", <<file_stem.name>>)
    ELSE Ok

(* The rules of path_valid_portable after the length, on the bytes of the  *)
(* lossily converted path.                                                 *)
Earlier_CheckPath(value, bytes) ==
    IF \E k \in 1..Len(bytes) : Earlier_IsInvalidByte(bytes[k])
    THEN Err("Path contains invalid characters: {:?}", <<value>>)
    ELSE IF value = <<>>
    THEN Err("Path is empty", <<>>)
    ELSE Earlier_CheckReserved(FileStem(value))

(* Faulty variant: a path that is not UTF-8 is refused.                    *)
Earlier_path_valid_portable_Utf8Only(value) ==
    IF PathTooLong(value)
    THEN Err("Path is too long ({} chars): {:?}", <<Len(value), value>>)
    ELSE IF ~ToStr(value).some
    THEN Err("Path contains invalid characters: {:?}", <<value>>)
    ELSE Earlier_CheckPath(value, LossyBytes(value))

Earlier_path_valid_portable(value) ==
    IF PathTooLong(value)
    THEN Err("Path is too long ({} chars): {:?}", <<Len(value), value>>)
    ELSE Earlier_CheckPath(value, LossyBytes(value))

(* The rules of filename_valid_portable once path_valid_portable has       *)
(* accepted.                                                               *)
Earlier_CheckName(value, bytes) ==
    IF NameTooLong(value)
    THEN Err("File/folder name is too long ({} chars): {:?}", <<Len(value), value>>)
    ELSE IF \E k \in 1..Len(bytes) : Earlier_IsSeparator(bytes[k])
    THEN Err("File/folder names cannot contain path separators: {:?}", <<value>>)
    ELSE Ok

(* Faulty variant: path_valid_portable is not called first.                *)
Earlier_filename_valid_portable_NameOnly(value) ==
    Earlier_CheckName(value, LossyBytes(value))

Earlier_filename_valid_portable(value) ==
    OrElse(Earlier_path_valid_portable(value), Earlier_CheckName(value, LossyBytes(value)))

----------------------------------------------------------------------------
(* The filesystem as the probes see it: what each path resolves to, and    *)
(* whether the effective user may read and write it.                       *)

(* A path resolves to nothing, to something whose metadata the process may *)
(* not read (no search permission on the way to it), or to a file, a       *)
(* directory or something else (a device, a pipe) with its permissions.    *)
Missing == [kind |-> "missing", readable |-> FALSE, writable |-> FALSE]
NoAccess == [kind |-> "noaccess", readable |-> FALSE, writable |-> FALSE]
Entries ==
    {Missing, NoAccess}
        \cup [kind : {"file", "dir", "other"}, readable : BOOLEAN, writable : BOOLEAN]

ContainsNul(path) == \E k \in 1..Len(path) : path[k] = NUL

(* What the path resolves to.  The empty path and a path the tree does not *)
(* hold resolve to nothing.                                                *)
Resolve(tree, path) == IF path \in DOMAIN tree THEN tree[path] ELSE Missing

NotFound == "No such file or directory (os error 2)"
PermissionDenied == "Permission denied (os error 13)"
NulInPath == "file name contained an unexpected NUL byte"

(* Faulty variant: no path is taken for a directory.                       *)
is_dir_Never(tree, path) == FALSE

(* Path::is_dir: the metadata can be read and says directory; false on any *)
(* error.                                                                  *)
is_dir(tree, path) == ~ContainsNul(path) /\ Resolve(tree, path).kind = "dir"

(* File::open: read-only.  The path is made a C string first, then opened. *)
FileOpen(tree, path) ==
    IF ContainsNul(path) THEN [ok |-> FALSE, error |-> NulInPath]
    ELSE IF Resolve(tree, path).kind = "missing" THEN [ok |-> FALSE, error |-> NotFound]
    ELSE IF ~Resolve(tree, path).readable THEN [ok |-> FALSE, error |-> PermissionDenied]
    ELSE [ok |-> TRUE, error |-> ""]

(* Faulty variant: the permission asked about is the one to read.          *)
Writable_AsReadable(tree, path) == ~ContainsNul(path) /\ Resolve(tree, path).readable

(* faccess::PathExt::writable: access(W_OK) for the effective user.        *)
Writable(tree, path) == ~ContainsNul(path) /\ Resolve(tree, path).writable

(* map_err(|e| format!("{}: {}", path.display(), e))                       *)
OpenVerdict(path, opened) ==
    IF opened.ok THEN Ok ELSE Err("{}: {}", <<path, opened.error>>)

path_readable_file(tree, value) ==
    IF is_dir(tree, value)
    THEN Err("{}: Input path must be a file, not a directory", <<value>>)
    ELSE OpenVerdict(value, FileOpen(tree, value))

(* The handles held once File::open has returned: one more when it has     *)
(* returned a File.                                                        *)
HandlesAfterOpen(held, opened) == IF opened.ok THEN held + 1 ELSE held

(* Faulty variant: the File is kept, not dropped.                          *)
HandlesAfterMap_Kept(held, opened) == held

(* .map(|_| ()): the File is dropped where the closure ignores it, which   *)
(* closes the handle.                                                      *)
HandlesAfterMap(held, opened) == IF opened.ok THEN held - 1 ELSE held

(* The handles held when path_readable_file returns.                       *)
HandlesAfterProbe(tree, value, held) ==
    IF is_dir(tree, value) THEN held
    ELSE HandlesAfterMap(HandlesAfterOpen(held, FileOpen(tree, value)),
                         FileOpen(tree, value))

(* Faulty variant: the open creates the file when there is none.           *)
TreeAfterOpen_Create(tree, path) ==
    IF path \in DOMAIN tree /\ ~ContainsNul(path) /\ tree[path].kind = "missing"
    THEN [tree EXCEPT ![path] = [kind |-> "file", readable |-> TRUE, writable |-> TRUE]]
    ELSE tree

(* The tree once File::open has returned: File::open is                    *)
(* OpenOptions::new().read(true), which neither creates nor truncates.     *)
TreeAfterOpen(tree, path) == tree

(* The tree once faccess's writable() has returned: access(2) asks, and    *)
(* touches nothing.                                                        *)
TreeAfterAccess(tree, path) == tree

(* The tree when path_readable_file returns: is_dir reads metadata only.   *)
TreeAfterReadableFile(tree, value) ==
    IF is_dir(tree, value) THEN tree ELSE TreeAfterOpen(tree, value)

(* The tree when path_output_dir returns.                                  *)
TreeAfterOutputDir(tree, value) ==
    IF ~is_dir(tree, value) THEN tree ELSE TreeAfterAccess(tree, value)

(* Faulty variant: an open that failed is tried once more.                 *)
OpenAttempts_Retry(tree, value) ==
    IF is_dir(tree, value) THEN 0 ELSE IF FileOpen(tree, value).ok THEN 1 ELSE 2

(* The calls of File::open that path_readable_file makes.                  *)
OpenAttempts(tree, value) == IF is_dir(tree, value) THEN 0 ELSE 1

path_output_dir(tree, value) ==
    IF ~is_dir(tree, value)
    THEN Err("Not a directory: {}", <<value>>)
    ELSE IF Writable(tree, value)
    THEN Ok
    ELSE Err("Would be unable to write to destination directory: {}", <<value>>)

(* What the caller does with a path once the probe has accepted it: opens  *)
(* the input file, or creates a file in the output directory.  The kernel  *)
(* decides on what the path resolves to at that time.                      *)
NotADirectory == "Not a directory (os error 20)"
CreateIn(tree, path) ==
    IF ContainsNul(path) THEN [ok |-> FALSE, error |-> NulInPath]
    ELSE IF Resolve(tree, path).kind = "missing" THEN [ok |-> FALSE, error |-> NotFound]
    ELSE IF Resolve(tree, path).kind = "noaccess" THEN [ok |-> FALSE, error |-> PermissionDenied]
    ELSE IF Resolve(tree, path).kind # "dir" THEN [ok |-> FALSE, error |-> NotADirectory]
    ELSE IF ~Resolve(tree, path).writable THEN [ok |-> FALSE, error |-> PermissionDenied]
    ELSE [ok |-> TRUE, error |-> ""]

UseAccepted(tree, held) ==
    IF held.op = "path_readable_file"
    THEN OpenVerdict(held.path, FileOpen(tree, held.path))
    ELSE OpenVerdict(held.path, CreateIn(tree, held.path))

NoAcceptance == [op |-> "none", path |-> <<>>, entry |-> Missing]

(* What the caller holds after a call: the path, when a probe accepted it. *)
Acceptance(tree, o, value, v) ==
    IF o \in {"path_readable_file", "path_output_dir"} /\ v.ok
    THEN [op |-> o, path |-> value, entry |-> Resolve(tree, value)]
    ELSE NoAcceptance

(* The paths the tree holds, as it is when the tests run, and the paths    *)
(* the probes are called with: those, the empty path, a missing path, a    *)
(* path with a NUL byte and one that is not UTF-8.                         *)
TmpDir == <<SLASH, 116, 109, 112>>                  \* /tmp
BinSh == <<SLASH, 98, 105, 110, SLASH, 115, 104>>   \* /bin/sh
TreePaths == {TmpDir, BinSh}
TestTree ==
    [path \in TreePaths |->
        IF path = TmpDir THEN [kind |-> "dir", readable |-> TRUE, writable |-> TRUE]
        ELSE [kind |-> "file", readable |-> TRUE, writable |-> FALSE]]
ProbePaths ==
    TreePaths \cup {<<>>, <<SLASH, 120>>, <<SLASH, 97, NUL, 98>>, <<SLASH, 255>>}

----------------------------------------------------------------------------
(* The arguments the validators are called with.                           *)

MaxPieces == 3
MaxComps == 2

Rep(piece, n) == SubSeq([i \in 1..(n * Len(piece)) |-> piece[((i - 1) % Len(piece)) + 1]], 1, n * Len(piece))

LetterX == <<88>>
EAcute == <<195, 169>>                          \* U+00E9 in UTF-8
DotTxt == <<46, 116, 120, 116>>                 \* .txt
DotTarGz == <<46, 116, 97, 114, 46, 103, 122>>  \* .tar.gz

(* Names put together from a few pieces: a reserved stem, period, space,  *)
(* a letter, a separator and the two bytes of U+00E9.                      *)
Pieces ==
    { <<99, 111, 110>>,     \* con
      <<PERIOD>>, <<SPACE>>, LetterX, <<SLASH>>,
      <<195>>, <<169>> }

RECURSIVE PieceSeqs(_)
PieceSeqs(n) ==
    IF n = 0 THEN {<<>>}
    ELSE PieceSeqs(n - 1) \cup {s \o q : s \in PieceSeqs(n - 1), q \in Pieces}

(* Every byte value at the front, in the middle and at the end of a name.  *)
ByteProbes == {pre \o <<b>> \o suf : b \in Byte, pre \in {<<>>, LetterX}, suf \in {<<>>, LetterX}}

(* Every reserved name in every letter-case, bare, with one extension,    *)
(* with two and with a digit appended; and, in lower case, with its last   *)
(* character cut off.                                                      *)
ToAsciiLowercase(s) == [k \in 1..Len(s) |-> IF s[k] >= 65 /\ s[k] <= 90 THEN s[k] + 32 ELSE s[k]]
LetterCases(s) ==
    {[k \in 1..Len(s) |-> IF lower[k] THEN ToAsciiLowercase(s)[k] ELSE s[k]]
        : lower \in [1..Len(s) -> BOOLEAN]}
LongSLst == <<108, 197, 191, 116>>              \* l, U+017F (long s), t
Extensions == {<<>>, DotTxt, DotTarGz, <<48>>}
ReservedProbes ==
    {c \o ext : c \in UNION {LetterCases(r) \cup {ToAsciiLowercase(SubSeq(r, 1, Len(r) - 1))}
                                : r \in RESERVED_DOS_FILENAMES} \cup {LongSLst},
                ext \in Extensions}

(* Names at the length limit, in one-byte and in two-byte characters.      *)
LengthProbes ==
    {Rep(LetterX, n) : n \in (MaxNameLen - 1)..(MaxNameLen + 1)}
    \cup {Rep(EAcute, n) : n \in {MaxNameLen \div 2, MaxNameLen \div 2 + 1}}
    \cup {Rep(LetterX, MaxNameLen - 1) \o <<PERIOD>>, Rep(LetterX, MaxNameLen) \o <<PERIOD>>}

(* Paths of up to MaxComps components, joined by one or two separators,    *)
(* relative or absolute, with or without a trailing separator.             *)
PathComps ==
    { <<97>>,                       \* a
      <<99, 111, 110>> \o DotTxt,   \* con.txt
      <<PERIOD>>, <<PERIOD, PERIOD>>,
      <<97, SPACE>>,                \* a, space
      <<97, BACKSLASH, 98>>,        \* a\b
      <<255>> }                     \* not UTF-8
Seps == {<<SLASH>>, <<SLASH, SLASH>>}

RECURSIVE JoinedComps(_)
JoinedComps(n) ==
    IF n = 0 THEN {}
    ELSE IF n = 1 THEN PathComps
    ELSE JoinedComps(n - 1)
         \cup {p \o sep \o c : p \in JoinedComps(n - 1), sep \in Seps, c \in PathComps}

PathProbes == {lead \o p \o trail : lead \in {<<>>, <<SLASH>>}, p \in JoinedComps(MaxComps),
                                    trail \in {<<>>, <<SLASH>>}}

(* Paths with a component one byte over the length limit, as the only     *)
(* component, as a directory and as the final component.                   *)
OverlongProbes ==
    {pre \o Rep(LetterX, MaxNameLen + 1) \o post
        : pre \in {<<>>, <<97, SLASH>>}, post \in {<<>>, <<SLASH, 97>>}}

(* Paths at the length limit: full-length components, each followed by one *)
(* separator or by two, or a reserved name among them, cut to n bytes.     *)
LongUnits ==
    { Rep(LetterX, MaxNameLen) \o <<SLASH>>,
      Rep(LetterX, MaxNameLen - 1) \o <<SLASH, SLASH>>,
      Rep(LetterX, MaxNameLen) \o <<SLASH, 99, 111, 110, SLASH>> }
LongPath(unit, n) == SubSeq([i \in 1..n |-> unit[((i - 1) % Len(unit)) + 1]], 1, n)
LongProbes == {LongPath(u, n) : u \in LongUnits, n \in {MaxPathLen, MaxPathLen + 1}}

(* Names that break two rules at once: NUL, an undecodable byte, a         *)
(* forbidden character or a reserved stem together with an earlier rule.   *)
MultiRuleProbes ==
    { <<NUL, PERIOD>>, <<NUL, SPACE>>, <<NUL, 255>>, <<255, NUL>>,
      Rep(LetterX, MaxNameLen) \o <<NUL>>,
      Rep(<<255>>, MaxNameLen - 1) \o <<STAR, PERIOD>>,
      Rep(LetterX, MaxNameLen) \o <<STAR>>,
      <<255, SPACE>>, <<255, STAR>>, <<STAR, PERIOD>>,
      <<99, 111, 110, PERIOD, STAR>>,           \* con.*
      <<99, 111, 110, PERIOD, 255>>,            \* con. and an undecodable byte
      <<99, 111, 110, NUL>> }

Inputs == MultiRuleProbes \cup PieceSeqs(MaxPieces) \cup ByteProbes \cup ReservedProbes \cup LengthProbes
              \cup PathProbes \cup OverlongProbes \cup LongProbes

(* The arguments of the earlier revision's tests: those, and a path with a *)
(* directory whose name is not UTF-8.                                      *)
SlashFFFoo == <<SLASH, 255, SLASH, 102, 111, 111>>  \* /\xff/foo
EarlierInputs == Inputs \cup {SlashFFFoo}

----------------------------------------------------------------------------
(* The caller: one call at a time, each returning its verdict.             *)

(* Further threads, and the arguments they call the rule engines with.     *)
MaxThreads == 2
Threads == 1..MaxThreads
IdleThread == [pc |-> "idle", op |-> "none", arg |-> <<>>, verdict |-> NoVerdict]
ThreadInputs == {TmpDir, <<99, 111, 110>>}          \* /tmp, con

Init ==
    /\ pc = "idle"
    /\ op = "none"
    /\ arg = <<>>
    /\ verdict = NoVerdict
    /\ fs = TestTree
    /\ opens = 0
    /\ handles = 0
    /\ accepted = NoAcceptance
    /\ threads = [t \in Threads |-> IdleThread]

CallFilenameValidPortable ==
    /\ pc = "idle"
    /\ \E value \in Inputs :
        /\ arg' = value
        /\ verdict' = filename_valid_portable(value)
    /\ op' = "filename_valid_portable"
    /\ pc' = "returned"
    /\ UNCHANGED <<fs, opens, handles, accepted, threads>>

CallPathValidPortable ==
    /\ pc = "idle"
    /\ \E value \in Inputs :
        /\ arg' = value
        /\ verdict' = path_valid_portable(value)
    /\ op' = "path_valid_portable"
    /\ pc' = "returned"
    /\ UNCHANGED <<fs, opens, handles, accepted, threads>>

CallPathReadableFile ==
    /\ pc = "idle"
    /\ \E value \in ProbePaths :
        /\ arg' = value
        /\ verdict' = path_readable_file(fs, value)
        /\ opens' = OpenAttempts(fs, value)
        /\ handles' = HandlesAfterProbe(fs, value, handles)
        /\ fs' = TreeAfterReadableFile(fs, value)
    /\ op' = "path_readable_file"
    /\ pc' = "returned"
    /\ UNCHANGED <<accepted, threads>>

CallPathOutputDir ==
    /\ pc = "idle"
    /\ \E value \in ProbePaths :
        /\ arg' = value
        /\ verdict' = path_output_dir(fs, value)
        /\ fs' = TreeAfterOutputDir(fs, value)
    /\ op' = "path_output_dir"
    /\ pc' = "returned"
    /\ UNCHANGED <<opens, handles, accepted, threads>>

(* Another process changes what a path resolves to, or its permissions,    *)
(* between two calls.                                                      *)
FsChange ==
    /\ pc = "idle"
    /\ \E path \in TreePaths, entry \in Entries :
        /\ fs[path] # entry
        /\ fs' = [fs EXCEPT ![path] = entry]
    /\ UNCHANGED <<pc, op, arg, verdict, opens, handles, accepted, threads>>

(* The caller uses the path a probe has accepted.                          *)
UsePath ==
    /\ pc = "idle"
    /\ accepted # NoAcceptance
    /\ arg' = accepted.path
    /\ verdict' = UseAccepted(fs, accepted)
    /\ op' = "use"
    /\ pc' = "returned"
    /\ UNCHANGED <<fs, opens, handles, accepted, threads>>

(* The caller has consumed the verdict and may call again.                 *)
Return ==
    /\ pc = "returned"
    /\ accepted' = Acceptance(fs, op, arg, verdict)
    /\ pc' = "idle"
    /\ op' = "none"
    /\ arg' = <<>>
    /\ verdict' = NoVerdict
    /\ opens' = 0
    /\ UNCHANGED <<fs, handles, threads>>

Next ==
    \/ CallFilenameValidPortable
    \/ CallPathValidPortable
    \/ Return

Spec == Init /\ [][Next]_vars

(* A thread enters a rule engine, and leaves it with the verdict; other    *)
(* threads and other processes run in between.                             *)
ThreadCall(t) ==
    /\ threads[t].pc = "idle"
    /\ \E o \in {"filename_valid_portable", "path_valid_portable"}, value \in ThreadInputs :
        threads' = [threads EXCEPT ![t] = [pc |-> "running", op |-> o, arg |-> value,
                                           verdict |-> NoVerdict]]
    /\ UNCHANGED <<pc, op, arg, verdict, fs, opens, handles, accepted>>

ThreadFinish(t) ==
    /\ threads[t].pc = "running"
    /\ threads' = [threads EXCEPT ![t].pc = "returned",
                                  ![t].verdict =
                                      IF threads[t].op = "filename_valid_portable"
                                      THEN filename_valid_portable(threads[t].arg)
                                      ELSE path_valid_portable(threads[t].arg)]
    /\ UNCHANGED <<pc, op, arg, verdict, fs, opens, handles, accepted>>

ThreadReturn(t) ==
    /\ threads[t].pc = "returned"
    /\ threads' = [threads EXCEPT ![t] = IdleThread]
    /\ UNCHANGED <<pc, op, arg, verdict, fs, opens, handles, accepted>>

ThreadNext ==
    \/ \E t \in Threads : ThreadCall(t)
    \/ \E t \in Threads : ThreadFinish(t)
    \/ \E t \in Threads : ThreadReturn(t)
    \/ FsChange

ThreadSpec == Init /\ [][ThreadNext]_vars

(* The probes, in a filesystem that other processes change.                *)
ProbeNext ==
    \/ CallPathReadableFile
    \/ CallPathOutputDir
    \/ FsChange
    \/ UsePath
    \/ Return

ProbeSpec == Init /\ [][ProbeNext]_vars

(* The two revisions of the rule engines, called on the same arguments.    *)
CallEarlierFilenameValidPortable ==
    /\ pc = "idle"
    /\ \E value \in EarlierInputs :
        /\ arg' = value
        /\ verdict' = Earlier_filename_valid_portable(value)
    /\ op' = "earlier_filename_valid_portable"
    /\ pc' = "returned"
    /\ UNCHANGED <<fs, opens, handles, accepted, threads>>

CallEarlierPathValidPortable ==
    /\ pc = "idle"
    /\ \E value \in EarlierInputs :
        /\ arg' = value
        /\ verdict' = Earlier_path_valid_portable(value)
    /\ op' = "earlier_path_valid_portable"
    /\ pc' = "returned"
    /\ UNCHANGED <<fs, opens, handles, accepted, threads>>

RevisionNext ==
    \/ CallEarlierFilenameValidPortable
    \/ CallEarlierPathValidPortable
    \/ CallFilenameValidPortable
    \/ Return

RevisionSpec == Init /\ [][RevisionNext]_vars

(* The four operations, called one after another by one caller, in the     *)
(* tree as it is when the tests run.                                       *)
AllNext ==
    \/ CallFilenameValidPortable
    \/ CallPathValidPortable
    \/ CallPathReadableFile
    \/ CallPathOutputDir
    \/ Return

AllSpec == Init /\ [][AllNext]_vars

----------------------------------------------------------------------------
(* Properties.                                                             *)

Returned(o) == pc = "returned" /\ op = o

TooLongFmt == "File/folder name is too long ({} chars): {}"
NonUtf8Fmt == "File/folder names containing non-UTF8 characters aren't portable"
TrailingFmt == "Windows forbids path components ending with spaces/periods"
InvalidCharsFmt == "Path component contains invalid characters: {}"
ReservedFmt == "Filename is reserved on Windows: {:?}"
PathTooLongFmt == "Path is too long ({} chars): {:?}"
EmptyFmt == "File/folder name is empty"
PathEmptyFmt == "Path is empty"
NoneFmt == ""

IsAsciiControl(b) == b <= 31 \/ b = 127
ForbiddenPunctuation == {QUOTE, STAR, LT, GT, QMARK, PIPE}
SeparatorBytes == {SLASH, BACKSLASH, COLON}

HasUndecodable(d) == \E k \in 1..Len(d) : d[k] = -1
IsValidUtf8(c) == ~HasUndecodable(Decode(c))

(* The stem, upper-cased, is one of the reserved names.                    *)
StemReserved(f) == f.some /\ ToUppercase(ToStringLossy(f.name)) \in RESERVED_DOS_FILENAMES
HasReservedStem(c) == StemReserved(FileStem(c))

(* The stated precondition of acceptance.                                  *)
MeetsStatedRules(c) ==
    /\ Len(c) >= 1 /\ Len(c) <= 255
    /\ \A k \in 1..Len(c) : ~IsAsciiControl(c[k])
                            /\ c[k] \notin ForbiddenPunctuation \cup SeparatorBytes
    /\ c[Len(c)] \notin {SPACE, PERIOD}
    /\ ~HasReservedStem(c)

AllNormalValid(cs) ==
    \A k \in 1..Len(cs) : cs[k].normal => filename_valid_portable(cs[k].name).ok

(* C1 as stated: filename_valid_portable accepts every component of 1..255 *)
(* bytes with no control character, none of " * < > ? | / \ :, no trailing *)
(* space or period and no reserved stem, with no further precondition.     *)
(* The code refuses such a component when it is not valid UTF-8.           *)
C1_AcceptsWithoutFurtherPrecondition ==
    Returned("filename_valid_portable") /\ MeetsStatedRules(arg) => verdict.ok

(* C1 amended: filename_valid_portable accepts every component of 1..255   *)
(* bytes that is valid UTF-8, has no control character, none of            *)
(* " * < > ? | / \ :, no trailing space or period and no reserved stem.    *)
C1_AcceptsValidUtf8Components ==
    Returned("filename_valid_portable") /\ MeetsStatedRules(arg) /\ IsValidUtf8(arg)
        => verdict.ok

C1_Witness ==
    /\ Returned("filename_valid_portable")
    /\ MeetsStatedRules(arg) /\ IsValidUtf8(arg)
    /\ Len(arg) = 255
    /\ verdict.ok

(* C2 as stated: path_valid_portable accepts if and only if every normal   *)
(* component of the path is accepted by filename_valid_portable.  The      *)
(* empty path and a path of more than 32,760 bytes are refused whatever    *)
(* their components are.                                                   *)
C2_AcceptsIffComponentsValid ==
    Returned("path_valid_portable") => (verdict.ok <=> AllNormalValid(Components(arg)))

(* C2 amended: a path that is not empty and has at most 32,760 bytes is    *)
(* accepted by path_valid_portable if and only if every normal component   *)
(* of it is accepted by filename_valid_portable; so it is refused when any *)
(* directory component, not only the final one, is invalid or over-long.   *)
C2_InRangeAcceptsIffComponentsValid ==
    Returned("path_valid_portable") /\ arg # <<>> /\ Len(arg) <= 32760
        => (verdict.ok <=> AllNormalValid(Components(arg)))

(* A refused path whose only bad component is a directory, not the last.   *)
BadDirectoryOnly(cs) ==
    /\ Len(cs) >= 2
    /\ ~filename_valid_portable(cs[1].name).ok
    /\ \A k \in 2..Len(cs) : cs[k].normal /\ filename_valid_portable(cs[k].name).ok

C2_Witness ==
    /\ Returned("path_valid_portable")
    /\ Len(arg) <= 32760
    /\ BadDirectoryOnly(Components(arg))
    /\ ~verdict.ok

(* C3: filename_valid_portable refuses every component of more than 255    *)
(* bytes, its length rule refuses none of 255 bytes or fewer, 256 letters  *)
(* X are refused and 255 letters X are accepted.                           *)
C3_NameLengthLimit ==
    Returned("filename_valid_portable") =>
        /\ Len(arg) > 255 => ~verdict.ok
        /\ verdict.fmt = TooLongFmt => Len(arg) > 255
        /\ arg = Rep(LetterX, 256) => ~verdict.ok
        /\ arg = Rep(LetterX, 255) => verdict.ok

C3_Witness ==
    /\ Returned("filename_valid_portable")
    /\ arg = Rep(LetterX, 256)
    /\ verdict = Err(TooLongFmt, <<256, arg>>)

(* C4: path_valid_portable refuses every path of more than 32,760 raw      *)
(* bytes, whatever it decomposes into, and accepts a path of exactly       *)
(* 32,760 bytes whose normal components are all valid.                     *)
C4_PathLengthLimit ==
    Returned("path_valid_portable") =>
        /\ Len(arg) > 32760 => verdict = Err(PathTooLongFmt, <<Len(arg), arg>>)
        /\ Len(arg) = 32760 /\ AllNormalValid(Components(arg)) => verdict.ok

C4_Witness ==
    /\ Returned("path_valid_portable")
    /\ Len(arg) = 32760
    /\ Len(Components(arg)) > 1
    /\ verdict.ok

(* C5: filename_valid_portable refuses every component whose file stem,    *)
(* upper-cased, is a reserved name, in every letter-case and with or       *)
(* without an extension: no accepted component has such a stem.            *)
C5_ReservedStemRefused ==
    Returned("filename_valid_portable") /\ verdict.ok => ~HasReservedStem(arg)

C5_Witness ==
    /\ Returned("filename_valid_portable")
    /\ arg = <<108, 80, 116, 49>> \o DotTxt     \* lPt1.txt
    /\ verdict = Err(ReservedFmt, <<(<<108, 80, 116, 49>>)>>)

(* C6: the reserved-name rule matches the whole stem: a component whose    *)
(* stem only begins with a reserved name, or is a proper prefix of one, is *)
(* accepted when it breaks no other rule (lpt, lpt0, lpt10).               *)
IsProperPrefix(a, b) == Len(a) < Len(b) /\ SubSeq(b, 1, Len(a)) = a
NearlyReserved(u) ==
    /\ u \notin RESERVED_DOS_FILENAMES
    /\ \E r \in RESERVED_DOS_FILENAMES : IsProperPrefix(u, r) \/ IsProperPrefix(r, u)
StemNearlyReserved(f) == f.some /\ NearlyReserved(ToUppercase(ToStringLossy(f.name)))
BreaksNoOtherRule(c) ==
    /\ Len(c) >= 1 /\ Len(c) <= 255
    /\ IsValidUtf8(c)
    /\ \A k \in 1..Len(c) : ~IsAsciiControl(c[k])
                            /\ c[k] \notin ForbiddenPunctuation \cup SeparatorBytes
    /\ c[Len(c)] \notin {SPACE, PERIOD}

C6_ReservedMatchIsExact ==
    Returned("filename_valid_portable") /\ BreaksNoOtherRule(arg)
            /\ StemNearlyReserved(FileStem(arg))
        => verdict.ok

C6_Witness ==
    /\ Returned("filename_valid_portable")
    /\ arg = <<108, 112, 116, 49, 48>>          \* lpt10
    /\ verdict.ok

(* C7: filename_valid_portable refuses every component that has, at any    *)
(* position, a byte in 0x01-0x1F, the byte 0x7F or one of " * < > ? |: no  *)
(* accepted component has such a byte.                                     *)
C7_ControlAndPunctuationRefused ==
    Returned("filename_valid_portable") /\ verdict.ok
        => ~\E k \in 1..Len(arg) : (arg[k] >= 1 /\ arg[k] <= 31) \/ arg[k] = 127
                                     \/ arg[k] \in ForbiddenPunctuation

C7_Witness ==
    /\ Returned("filename_valid_portable")
    /\ arg = LetterX \o <<DEL>> \o LetterX
    /\ verdict = Err(InvalidCharsFmt, <<arg>>)

(* C8: filename_valid_portable refuses every component that has '/', '\'   *)
(* or ':' at any position, also the two that are no separators on the      *)
(* platform the check runs on: no accepted component has one of them.      *)
C8_SeparatorsRefused ==
    Returned("filename_valid_portable") /\ verdict.ok
        => ~\E k \in 1..Len(arg) : arg[k] \in SeparatorBytes

C8_Witness ==
    /\ Returned("filename_valid_portable")
    /\ arg = LetterX \o <<BACKSLASH>> \o LetterX
    /\ verdict = Err(InvalidCharsFmt, <<arg>>)

(* C9: filename_valid_portable refuses every component whose last          *)
(* character is a space or a period, whatever comes before it.             *)
C9_TrailingSpaceOrPeriodRefused ==
    Returned("filename_valid_portable") /\ arg # <<>> /\ arg[Len(arg)] \in {SPACE, PERIOD}
        => ~verdict.ok

C9_Witness ==
    /\ Returned("filename_valid_portable")
    /\ arg = LetterX \o <<SPACE>>
    /\ verdict = Err(TrailingFmt, <<>>)

(* C10: filename_valid_portable refuses every component that is not valid  *)
(* UTF-8, and path_valid_portable refuses every path that has such a       *)
(* component: what either accepts decodes throughout.                      *)
SomeNormalUndecodable(cs) ==
    \E k \in 1..Len(cs) : cs[k].normal /\ ~IsValidUtf8(cs[k].name)

C11_EmptyNameRefused ==
    Returned("filename_valid_portable") =>
        /\ arg = <<>> => verdict = Err(EmptyFmt, <<>>)
        /\ verdict.fmt = EmptyFmt => arg = <<>>

C11_Witness ==
    /\ Returned("filename_valid_portable")
    /\ arg = <<>>
    /\ verdict = Err(EmptyFmt, <<>>)

(* C12 as stated: whenever a component contains the byte 0x00,             *)
(* filename_valid_portable returns the rejection of the rule that refuses  *)
(* NUL, also when the component is over-long, not valid UTF-8 or ends in a *)
(* space or a period.  The code tests NUL in the forbidden-character rule, *)
(* after those rules.                                                      *)
HasNul(c) == \E k \in 1..Len(c) : c[k] = NUL

C12_NulReportedFirst ==
    Returned("filename_valid_portable") /\ HasNul(arg)
        => verdict = Err(InvalidCharsFmt, <<arg>>)

(* C12 amended: a component that contains the byte 0x00 is always refused  *)
(* by filename_valid_portable; the rejection is the one of the forbidden-  *)
(* character rule when the component is at most 255 bytes, valid UTF-8 and *)
(* does not end in a space or a period, and otherwise the one of the       *)
(* length, text-validity or trailing-character rule it breaks.             *)
C12_NulRefusedInCharacterRule ==
    Returned("filename_valid_portable") /\ HasNul(arg) =>
        /\ ~verdict.ok
        /\ verdict.fmt \in {TooLongFmt, NonUtf8Fmt, TrailingFmt, InvalidCharsFmt}
        /\ verdict.fmt = TooLongFmt <=> Len(arg) > 255
        /\ verdict.fmt = NonUtf8Fmt <=> Len(arg) <= 255 /\ ~IsValidUtf8(arg)
        /\ verdict.fmt = TrailingFmt
            <=> Len(arg) <= 255 /\ IsValidUtf8(arg) /\ arg[Len(arg)] \in {SPACE, PERIOD}

C12_Witness ==
    /\ Returned("filename_valid_portable")
    /\ arg = <<NUL, PERIOD>>
    /\ verdict = Err(TrailingFmt, <<>>)

(* C13: when a component breaks several rules, filename_valid_portable     *)
(* returns the reason of the first it breaks in the order length,          *)
(* emptiness, text validity, trailing space or period, forbidden           *)
(* characters and separators, reserved stem; and accepts when it breaks    *)
(* none.  A 256-byte component ending in a period is reported too long.    *)
HasForbiddenByte(c) ==
    \E k \in 1..Len(c) : IsAsciiControl(c[k])
                            \/ c[k] \in ForbiddenPunctuation \cup SeparatorBytes

FirstBrokenRule(c) ==
    IF Len(c) > 255 THEN TooLongFmt
    ELSE IF Len(c) = 0 THEN EmptyFmt
    ELSE IF ~IsValidUtf8(c) THEN NonUtf8Fmt
    ELSE IF c[Len(c)] \in {SPACE, PERIOD} THEN TrailingFmt
    ELSE IF HasForbiddenByte(c) THEN InvalidCharsFmt
    ELSE IF HasReservedStem(c) THEN ReservedFmt
    ELSE NoneFmt

BrokenRules(c) ==
    (IF Len(c) > 255 THEN {TooLongFmt} ELSE {})
    \cup (IF ~IsValidUtf8(c) THEN {NonUtf8Fmt} ELSE {})
    \cup (IF c # <<>> /\ c[Len(c)] \in {SPACE, PERIOD} THEN {TrailingFmt} ELSE {})
    \cup (IF HasForbiddenByte(c) THEN {InvalidCharsFmt} ELSE {})
    \cup (IF HasReservedStem(c) THEN {ReservedFmt} ELSE {})

C13_FirstBrokenRuleReported ==
    Returned("filename_valid_portable") =>
        /\ verdict.fmt = FirstBrokenRule(arg)
        /\ verdict.ok <=> FirstBrokenRule(arg) = NoneFmt
        /\ arg = Rep(LetterX, 255) \o <<PERIOD>> => verdict.fmt = TooLongFmt

C13_Witness ==
    /\ Returned("filename_valid_portable")
    /\ Cardinality(BrokenRules(arg)) >= 3
    /\ verdict.fmt = TooLongFmt

(* C14: path_valid_portable refuses the empty path with the reason 'Path   *)
(* is empty', not with a reason of the length rule or of a component, and  *)
(* gives that reason to no other path.                                     *)
C14_EmptyPathRefused ==
    Returned("path_valid_portable") =>
        /\ arg = <<>> => verdict = Err(PathEmptyFmt, <<>>)
        /\ verdict.fmt = PathEmptyFmt => arg = <<>>

C14_Witness ==
    /\ Returned("path_valid_portable")
    /\ arg = <<>>
    /\ verdict = Err(PathEmptyFmt, <<>>)

(* C15: '.' and '..' components are passed over by path_valid_portable: a  *)
(* path with such components, not empty and within the length limit, is    *)
(* accepted exactly when its other components break no rule ('foo/..' is   *)
(* accepted), although filename_valid_portable refuses '.' and '..'.       *)
IsDotSegment(seg) == seg = <<PERIOD>> \/ seg = <<PERIOD, PERIOD>>
HasDotSegment(segs) == \E k \in 1..Len(segs) : IsDotSegment(segs[k])
OtherSegmentsValid(segs) ==
    \A k \in 1..Len(segs) : IsDotSegment(segs[k]) \/ FirstBrokenRule(segs[k]) = NoneFmt

C15_DotComponentsSkipped ==
    /\ Returned("path_valid_portable") /\ arg # <<>> /\ Len(arg) <= 32760
            /\ HasDotSegment(Segments(arg))
        => (verdict.ok <=> OtherSegmentsValid(Segments(arg)))
    /\ Returned("filename_valid_portable") /\ IsDotSegment(arg) => ~verdict.ok

C15_Witness ==
    /\ Returned("path_valid_portable")
    /\ arg = <<97, SLASH, PERIOD, PERIOD>>      \* a/..
    /\ verdict.ok

(* C16 as stated: for every path, path_valid_portable accepts the path     *)
(* exactly when it accepts the path with every run of separators collapsed *)
(* into one, and no empty component reaches filename_valid_portable.  A    *)
(* path over the length limit only by its repeated separators is refused   *)
(* while its collapsed form is accepted.                                   *)
RECURSIVE CollapseRange(_, _, _)
CollapseRange(p, lo, hi) ==
    IF lo > hi THEN <<>>
    ELSE IF lo = hi
    THEN (IF p[lo] = SLASH /\ lo > 1 /\ p[lo - 1] = SLASH THEN <<>> ELSE <<p[lo]>>)
    ELSE CollapseRange(p, lo, (lo + hi) \div 2)
             \o CollapseRange(p, (lo + hi) \div 2 + 1, hi)
Collapse(p) == CollapseRange(p, 1, Len(p))

NoEmptyComponent(cs) == \A k \in 1..Len(cs) : cs[k].name # <<>>

C16_CollapsedPathSameVerdict ==
    Returned("path_valid_portable") =>
        /\ verdict.ok <=> path_valid_portable(Collapse(arg)).ok
        /\ NoEmptyComponent(Components(arg))
        /\ verdict.fmt # EmptyFmt

(* C16 amended: for every path of at most 32,760 bytes, path_valid_portable *)
(* returns the same verdict, reason included, for the path and for the     *)
(* path with every run of separators collapsed into one, and no empty      *)
(* component reaches filename_valid_portable.                              *)
C16_InRangeCollapsedPathSameVerdict ==
    /\ Returned("path_valid_portable") /\ Len(arg) <= 32760
        => verdict = path_valid_portable(Collapse(arg))
    /\ Returned("path_valid_portable")
        => NoEmptyComponent(Components(arg)) /\ verdict.fmt # EmptyFmt

C16_Witness ==
    /\ Returned("path_valid_portable")
    /\ Len(arg) <= 32760
    /\ Collapse(arg) # arg
    /\ Len(Components(arg)) >= 2
    /\ verdict.ok

(* C17: path_valid_portable accepts relative and absolute paths made of    *)
(* valid components joined by '/', and refuses every path that has a '\'   *)
(* or a ':' among its bytes: no accepted path has one.                     *)
HasForeignSeparator(p) == \E k \in 1..Len(p) : p[k] \in {BACKSLASH, COLON}

InvalidNormals(cs) ==
    {k \in 1..Len(cs) : cs[k].normal /\ ~filename_valid_portable(cs[k].name).ok}
Leftmost(positions) == CHOOSE x \in positions : \A y \in positions : x <= y
LeftmostReported(cs, bad, v) ==
    bad # {} => v = filename_valid_portable(cs[Leftmost(bad)].name)

IsDirectoryFmt == "{}: Input path must be a file, not a directory"
IoErrorFmt == "{}: {}"

DenotesDirectory(tree, path) == path \in DOMAIN tree /\ tree[path].kind = "dir"
OpensForReading(tree, path) ==
    /\ path \in DOMAIN tree
    /\ tree[path].kind # "missing"
    /\ tree[path].readable
IoErrorText(tree, path) ==
    IF ContainsNul(path) THEN NulInPath
    ELSE IF path = <<>> \/ path \notin DOMAIN tree \/ tree[path].kind = "missing"
    THEN NotFound
    ELSE PermissionDenied

C19_ReadableFileVerdict ==
    Returned("path_readable_file") =>
        IF DenotesDirectory(fs, arg)
        THEN verdict = Err(IsDirectoryFmt, <<arg>>) /\ opens = 0
        ELSE /\ opens = 1
             /\ verdict.ok <=> OpensForReading(fs, arg)
             /\ ~verdict.ok => verdict = Err(IoErrorFmt, <<arg, IoErrorText(fs, arg)>>)

C19_Witness ==
    /\ Returned("path_readable_file")
    /\ DenotesDirectory(fs, arg) /\ fs[arg].readable
    /\ verdict = Err(IsDirectoryFmt, <<arg>>)
    /\ opens = 0

(* C20: path_output_dir accepts a path if and only if it is an existing    *)
(* directory the effective user may write to; a path that is no directory  *)
(* (a file, a device, a missing path) is refused as 'Not a directory'      *)
(* whatever its permissions, and a directory without write permission is   *)
(* refused as not writable.                                                *)
NotDirectoryFmt == "Not a directory: {}"
UnwritableFmt == "Would be unable to write to destination directory: {}"

C20_OutputDirVerdict ==
    Returned("path_output_dir") =>
        /\ verdict.ok <=> DenotesDirectory(fs, arg) /\ fs[arg].writable
        /\ ~DenotesDirectory(fs, arg) => verdict = Err(NotDirectoryFmt, <<arg>>)
        /\ DenotesDirectory(fs, arg) /\ ~fs[arg].writable
            => verdict = Err(UnwritableFmt, <<arg>>)

C20_Witness ==
    /\ Returned("path_output_dir")
    /\ arg \in DOMAIN fs /\ fs[arg].kind = "file" /\ fs[arg].writable
    /\ verdict = Err(NotDirectoryFmt, <<arg>>)

(* C21: when path_readable_file returns, with either verdict, the process  *)
(* holds no handle the call has opened: the handle opened for the test is  *)
(* closed before the verdict reaches the caller.                           *)
C21_NoHandleLeftOpen ==
    Returned("path_readable_file") => handles = 0

C21_Witness ==
    /\ Returned("path_readable_file")
    /\ verdict.ok
    /\ opens = 1
    /\ handles = 0

(* C22: the acceptance of a probe does not last: the use of an accepted    *)
(* path succeeds while the path resolves to what it did when the probe     *)
(* accepted it, and fails once another process has changed that, so the    *)
(* state in which a probe accepted and the later use fails is reached.     *)
C22_UseFailsOnlyAfterChange ==
    Returned("use") =>
        /\ arg = accepted.path
        /\ fs[arg] = accepted.entry => verdict.ok
        /\ ~verdict.ok => fs[arg] # accepted.entry

C22_Witness ==
    /\ Returned("use")
    /\ accepted.op = "path_readable_file"
    /\ arg = accepted.path
    /\ verdict = Err(IoErrorFmt, <<arg, PermissionDenied>>)

(* C23: the verdict of filename_valid_portable and of path_valid_portable  *)
(* depends on the argument alone: two threads that called the same rule    *)
(* engine with the same argument hold the same verdict, whatever the       *)
(* filesystem was when each ran and whatever the other thread was doing,   *)
(* and it is the verdict the call gives in the present state as well.      *)
VerdictNow(o, value) ==
    IF o = "filename_valid_portable" THEN filename_valid_portable(value)
    ELSE path_valid_portable(value)

C24_ProbesLeaveFilesystemAlone ==
    [][(pc = "idle" /\ pc' = "returned"
            /\ op' \in {"path_readable_file", "path_output_dir"}) => fs' = fs]_vars

(* path_readable_file has looked for a file that is not there, and it is   *)
(* still not there.                                                        *)
C24_Witness ==
    /\ Returned("path_readable_file")
    /\ arg \in TreePaths
    /\ verdict = Err(IoErrorFmt, <<arg, NotFound>>)
    /\ fs[arg] = Missing

(* C25: each of the four operations returns exactly one verdict as a value *)
(* for every input: success, or a failure carrying one of the operation's  *)
(* own reasons; nothing is retried, and path_readable_file makes at most   *)
(* one open attempt per call (none when it refuses a directory, none at    *)
(* all in the other three operations).                                     *)
Operations ==
    {"filename_valid_portable", "path_valid_portable", "path_readable_file", "path_output_dir"}
ReasonsOf(o) ==
    IF o = "filename_valid_portable"
    THEN {TooLongFmt, NonUtf8Fmt, EmptyFmt, TrailingFmt, InvalidCharsFmt, ReservedFmt}
    ELSE IF o = "path_valid_portable"
    THEN {PathEmptyFmt, PathTooLongFmt, TooLongFmt, NonUtf8Fmt, EmptyFmt, TrailingFmt,
          InvalidCharsFmt, ReservedFmt}
    ELSE IF o = "path_readable_file" THEN {IsDirectoryFmt, IoErrorFmt}
    ELSE {NotDirectoryFmt, UnwritableFmt}
C25_OneVerdictNoRetry ==
    pc = "returned" /\ op \in Operations =>
        /\ verdict # NoVerdict
        /\ verdict = Ok \/ (~verdict.ok /\ verdict.fmt \in ReasonsOf(op))
        /\ opens <= 1
        /\ op # "path_readable_file" => opens = 0
        /\ op = "path_readable_file" => (opens = 0 <=> verdict.fmt = IsDirectoryFmt)

(* path_readable_file has failed to open a path with a NUL byte, once.     *)
C25_Witness ==
    /\ Returned("path_readable_file")
    /\ verdict = Err(IoErrorFmt, <<arg, NulInPath>>)
    /\ opens = 1

(* C26: the earlier revision does not refuse names for not being UTF-8: a  *)
(* name or path that is not valid UTF-8 and breaks no other rule of that   *)
(* revision (length, forbidden bytes, emptiness, reserved stem and, for a  *)
(* name, separators) is accepted by filename_valid_portable and by         *)
(* path_valid_portable of that revision.                                   *)
Earlier_StemReserved(f) ==
    f.some /\ ToUppercase(ToStringLossy(f.name)) \in Earlier_RESERVED_DOS_FILENAMES
Earlier_BreaksPathRule(c) ==
    \/ Len(c) > MaxPathLen
    \/ \E k \in 1..Len(c) : IsAsciiControl(c[k]) \/ c[k] \in ForbiddenPunctuation
    \/ c = <<>>
    \/ Earlier_StemReserved(FileStem(c))
Earlier_BreaksNameRule(c) ==
    \/ Earlier_BreaksPathRule(c)
    \/ Len(c) > MaxNameLen
    \/ \E k \in 1..Len(c) : c[k] \in SeparatorBytes
C26_EarlierAcceptsNonUtf8 ==
    /\ Returned("earlier_path_valid_portable") /\ ~verdict.ok
            => IsValidUtf8(arg) \/ Earlier_BreaksPathRule(arg)
    /\ Returned("earlier_filename_valid_portable") /\ ~verdict.ok
            => IsValidUtf8(arg) \/ Earlier_BreaksNameRule(arg)

(* The earlier path_valid_portable has accepted /\xff/foo.                 *)
C26_Witness ==
    /\ Returned("earlier_path_valid_portable")
    /\ arg = SlashFFFoo
    /\ ~IsValidUtf8(arg)
    /\ verdict.ok

(* C27: a reserved device name stays rejected by filename_valid_portable   *)
(* whatever extension is appended, including one that contains periods: a  *)
(* component whose text before its first period is a reserved name, in any *)
(* letter-case, is rejected.                                               *)
FirstPeriod(n) ==
    LET dots == {j \in 1..Len(n) : n[j] = PERIOD}
    IN  IF dots = {} THEN 0 ELSE CHOOSE x \in dots : \A y \in dots : x <= y
BeforeFirstPeriod(n) == IF FirstPeriod(n) = 0 THEN n ELSE SubSeq(n, 1, FirstPeriod(n) - 1)
NamesReservedDevice(c) ==
    ToUppercase(ToStringLossy(BeforeFirstPeriod(c))) \in RESERVED_DOS_FILENAMES
C27_ReservedWithAnyExtensionRejected ==
    Returned("filename_valid_portable") /\ NamesReservedDevice(arg) => ~verdict.ok

(* C28: within one revision, every string filename_valid_portable accepts  *)
(* is also accepted by path_valid_portable of that revision when given as  *)
(* a whole path.                                                           *)
C28_AcceptedNameIsAcceptedPath ==
    /\ Returned("filename_valid_portable") /\ verdict.ok => path_valid_portable(arg).ok
    /\ Returned("earlier_filename_valid_portable") /\ verdict.ok
            => Earlier_path_valid_portable(arg).ok

(* A name of full length that the later revision accepts as a name and as  *)
(* a path.                                                                 *)
C28_Witness ==
    /\ Returned("filename_valid_portable")
    /\ Len(arg) = MaxNameLen
    /\ verdict.ok
    /\ path_valid_portable(arg).ok

(* C29: the later filename_valid_portable only adds restrictions to the    *)
(* earlier one.  As claimed: every component the later revision accepts is *)
(* accepted by the earlier one, and the two differ on a component exactly  *)
(* when the later one rejects it for not being valid UTF-8, for ending in  *)
(* a space or period, or for a stem among the added reserved names.        *)
AddedReservedNames == RESERVED_DOS_FILENAMES \ Earlier_RESERVED_DOS_FILENAMES
StemAdded(f) == f.some /\ ToUppercase(ToStringLossy(f.name)) \in AddedReservedNames
RejectsForAddedRestriction(v, c) ==
    /\ ~v.ok
    /\ \/ v.fmt = NonUtf8Fmt
       \/ v.fmt = TrailingFmt
       \/ v.fmt = ReservedFmt /\ StemAdded(FileStem(c))
Compared == pc = "returned" /\ op \in {"filename_valid_portable", "earlier_filename_valid_portable"}
LaterVerdict == IF op = "filename_valid_portable" THEN verdict ELSE filename_valid_portable(arg)
EarlierVerdict ==
    IF op = "earlier_filename_valid_portable" THEN verdict
    ELSE Earlier_filename_valid_portable(arg)
C29_DifferExactlyOnAddedRestrictions ==
    Compared =>
        /\ LaterVerdict.ok => EarlierVerdict.ok
        /\ LaterVerdict.ok # EarlierVerdict.ok <=> RejectsForAddedRestriction(LaterVerdict, arg)

(* C29, amended: every component the later revision accepts is accepted by *)
(* the earlier one; every component on which the two differ is one the     *)
(* later revision rejects for not being valid UTF-8, for ending in a space *)
(* or period, or for a stem among the added reserved names; and a          *)
(* component rejected for one of these is a difference unless it also      *)
(* breaks a rule of the earlier revision.                                  *)
C29_DifferOnlyOnAddedRestrictions ==
    Compared =>
        /\ LaterVerdict.ok => EarlierVerdict.ok
        /\ LaterVerdict.ok # EarlierVerdict.ok => RejectsForAddedRestriction(LaterVerdict, arg)
        /\ RejectsForAddedRestriction(LaterVerdict, arg) /\ ~Earlier_BreaksNameRule(arg)
                => LaterVerdict.ok # EarlierVerdict.ok

(* The later revision has rejected a name for an added reserved stem that  *)
(* the earlier revision accepts.                                           *)
C29_Witness ==
    /\ Returned("filename_valid_portable")
    /\ verdict.fmt = ReservedFmt
    /\ StemAdded(FileStem(arg))
    /\ Earlier_filename_valid_portable(arg).ok

====
